---- MODULE Spec2Model ----
(***************************************************************************)
(* A model of hemi.h, the "HEMI" CUDA portable C/C++ macro header.         *)
(*                                                                         *)
(* Three specifications share the build configuration (compiler, debug):   *)
(*   Spec       checkCuda, checkCudaErrors and HEMI_KERNEL_LAUNCH against  *)
(*              the CUDA runtime's error state;                            *)
(*   SpecLoop   the grid-strided loop idiom over hemiGetElementOffset and  *)
(*              hemiGetElementStride, with 32-bit int arithmetic;          *)
(*   SpecConst  HEMI_DEFINE_CONSTANT and HEMI_CONSTANT.                    *)
(***************************************************************************)
EXTENDS Integers, Sequences, FiniteSets, TLC

VARIABLES
  compiler,   \* "nvcc" when __CUDACC__ is defined, "host" otherwise
  debug,      \* TRUE when DEBUG or _DEBUG is defined
  pass,       \* the pass that compiled the running code: "device" when __CUDA_ARCH__ is defined
  N,          \* the element count of the loop idiom
  blockDimX,  \* blockDim.x of the launch
  gridDimX,   \* gridDim.x of the launch
  threads,    \* the threads of the launch that are followed: <<blockIdx.x, threadIdx.x>>
  thr,        \* per followed thread: pc, offset, stride, idx, visited, ub
  rt,         \* the CUDA runtime: lastError, sticky error, kernels in flight
  alive,      \* FALSE once an assertion has aborted the process
  nops,       \* operations issued so far
  last,       \* what the last operation of the header did
  store,      \* the storage HEMI_DEFINE_CONSTANT emitted: name_hostconst, name_devconst
  defs,       \* the initializer each defined constant was given
  lastRead    \* the last read through HEMI_CONSTANT

buildVars == <<compiler, debug>>
loopVars == <<pass, N, blockDimX, gridDimX, threads, thr>>
rtVars == <<rt, alive, nops, last>>
constVars == <<store, defs, lastRead>>
vars == <<buildVars, loopVars, rtVars, constVars>>

-----------------------------------------------------------------------------
(* Bounds of the model.                                                    *)

MaxN == 5          \* element counts 0..MaxN are run with every thread followed
MaxBlockDim == 2   \* blockDim.x of the launches whose threads are all followed
MaxVisits == 6     \* a followed thread is stopped after this many iterations
MaxOps == 3        \* operations of the header issued in one run

-----------------------------------------------------------------------------
(* int and unsigned int, both 32 bits wide.  An unsigned value is kept as  *)
(* two 16-bit halves <<hi, lo>> so that no intermediate leaves the range   *)
(* TLC computes in.                                                        *)

INT_MAX == 2147483647
INT_MIN == -INT_MAX - 1
Half == 2^16

U32(n) == <<n \div Half, n % Half>>

AddU32(a, b) ==
  LET lo == a[2] + b[2]
      hi == a[1] + b[1] + (lo \div Half)
  IN  <<hi % Half, lo % Half>>

RECURSIVE MulU32(_, _)
\* n * b modulo 2^32, n a natural number below 2^31, b an unsigned value
MulU32(n, b) ==
  IF n = 0 THEN <<0, 0>>
  ELSE LET r == MulU32(n \div 2, AddU32(b, b))
       IN  IF n % 2 = 1 THEN AddU32(b, r) ELSE r

\* the conversion of an unsigned int to the int the helpers return
ToInt(a) ==
  IF a[1] >= Half \div 2 THEN (a[1] - Half) * Half + a[2]
  ELSE a[1] * Half + a[2]

\* idx + stride leaves the int range
AddOverflows(a, b) ==
  \/ b > 0 /\ a > INT_MAX - b
  \/ b < 0 /\ a < INT_MIN - b

\* the two's-complement result of an int addition that leaves the range
WrapAdd(a, b) ==
  IF b > 0 THEN (a - INT_MAX) + (b - INT_MAX) - 2
  ELSE (a + INT_MAX) + (b + INT_MAX) + 2

-----------------------------------------------------------------------------
(* Mode detection.                                                         *)

HEMI_DEV_CODE == compiler = "nvcc" /\ pass = "device"

Modes == {<<"host", "host">>, <<"nvcc", "host">>, <<"nvcc", "device">>}


-----------------------------------------------------------------------------
(* The CUDA runtime the header calls (cuda_runtime_api.h), as documented:  *)
(* every call that returns an error records it as the host thread's last   *)
(* error; cudaGetLastError returns the last error and resets it; a kernel  *)
(* fault is sticky and is returned by every later call.                    *)

cudaSuccess == "cudaSuccess"
Status ==
  {cudaSuccess, "cudaErrorInvalidConfiguration", "cudaErrorLaunchFailure",
   "cudaErrorMemoryAllocation"}
LaunchErrors == {"cudaErrorInvalidConfiguration", "cudaErrorLaunchFailure"}

NoReturn == "noreturn"
NoValue == "none"

RtInit == [lastError |-> cudaSuccess, sticky |-> cudaSuccess, inflight |-> <<>>]

\* a runtime call returning st records it when it is an error
Recorded(r, st) == IF st # cudaSuccess THEN [r EXCEPT !.lastError = st] ELSE r

\* any runtime call the caller wraps in checkCuda; own is its own outcome
cudaApiCall(r, own) ==
  LET st == IF r.sticky # cudaSuccess THEN r.sticky ELSE own
  IN  [status |-> st, rt |-> Recorded(r, st)]

\* blocks until every kernel in flight has completed
cudaDeviceSynchronize(r) ==
  LET faulted == \E i \in 1 .. Len(r.inflight) : r.inflight[i] = "fault"
      st == IF r.sticky # cudaSuccess THEN r.sticky
            ELSE IF faulted THEN "cudaErrorLaunchFailure"
            ELSE cudaSuccess
  IN  [status |-> st,
       rt |-> Recorded([r EXCEPT !.sticky = st, !.inflight = <<>>], st)]

cudaGetLastError(r) ==
  [status |-> r.lastError, rt |-> [r EXCEPT !.lastError = r.sticky]]

cudaGetErrorString(st) == st

\* name<<<gridDim, blockDim, sharedBytes, streamId>>>(args): returns at once;
\* an invalid configuration is recorded as the last error, an accepted kernel
\* is queued with its fate ("ok" or "fault")
cudaLaunch(r, cfg, fate) ==
  IF r.sticky # cudaSuccess THEN Recorded(r, r.sticky)
  ELSE IF cfg.grid = 0 \/ cfg.block = 0
       THEN Recorded(r, "cudaErrorInvalidConfiguration")
  ELSE [r EXCEPT !.inflight = Append(@, fate)]

\* the device finishes the oldest kernel in flight
DeviceStep(r) ==
  [r EXCEPT !.inflight = Tail(@),
            !.sticky = IF Head(r.inflight) = "fault" /\ @ = cudaSuccess
                       THEN "cudaErrorLaunchFailure" ELSE @]

-----------------------------------------------------------------------------
(* Error-check helpers.  A call works on the process state ps: the runtime *)
(* state rt, the lines written to stderr (out), the runtime calls issued   *)
(* (calls), the kernels handed to the runtime (launched), the kernel       *)
(* bodies run on the host (body) and whether an assertion has failed.      *)

Enter(r) ==
  [rt |-> r, out |-> <<>>, calls |-> <<>>, launched |-> <<>>, body |-> <<>>,
   aborted |-> FALSE]

Called(ps, fn, by, res) ==
  [ps EXCEPT !.rt = res.rt,
             !.calls = Append(@, [fn |-> fn, by |-> by, status |-> res.status])]

\* checkCuda with assert(result == cudaSuccess) left out of the debug branch
checkCuda_NoAssert(result, ps) ==
  IF debug /\ result # cudaSuccess
  THEN [ret |-> result,
        ps |-> [ps EXCEPT !.out = Append(@, <<"CUDA Runtime Error", cudaGetErrorString(result)>>)]]
  ELSE [ret |-> result, ps |-> ps]

\* checkCuda returning the runtime's last error instead of its argument
checkCuda_ReturnsLastError(result, ps) ==
  LET g == cudaGetLastError(ps.rt)
  IN  IF debug /\ result # cudaSuccess
      THEN [ret |-> NoReturn,
            ps |-> [ps EXCEPT !.out = Append(@, <<"CUDA Runtime Error", cudaGetErrorString(result)>>),
                              !.aborted = TRUE]]
      ELSE [ret |-> g.status, ps |-> Called(ps, "cudaGetLastError", "checkCuda", g)]

checkCuda(result, ps) ==
  IF debug /\ result # cudaSuccess
  THEN [ret |-> NoReturn,
        ps |-> [ps EXCEPT !.out = Append(@, <<"CUDA Runtime Error", cudaGetErrorString(result)>>),
                          !.aborted = TRUE]]
  ELSE [ret |-> result, ps |-> ps]

\* checkCudaErrors querying the last error before it synchronizes
checkCudaErrors_QueryFirst(ps) ==
  IF debug
  THEN LET g  == cudaGetLastError(ps.rt)
           p1 == Called(ps, "cudaGetLastError", "checkCudaErrors", g)
           c  == checkCuda(g.status, p1)
           s  == cudaDeviceSynchronize(c.ps.rt)
           p2 == Called(c.ps, "cudaDeviceSynchronize", "checkCudaErrors", s)
           p3 == IF s.status # cudaSuccess
                 THEN [p2 EXCEPT !.out = Append(@, <<"CUDA Launch Error", cudaGetErrorString(s.status)>>)]
                 ELSE p2
       IN  IF c.ps.aborted THEN c ELSE [ret |-> g.status, ps |-> p3]
  ELSE [ret |-> cudaSuccess, ps |-> ps]

\* checkCudaErrors with the #if defined(DEBUG) test dropped
checkCudaErrors_AlwaysChecks(ps) ==
  LET s  == cudaDeviceSynchronize(ps.rt)
      p1 == Called(ps, "cudaDeviceSynchronize", "checkCudaErrors", s)
      g  == cudaGetLastError(p1.rt)
      p2 == Called(p1, "cudaGetLastError", "checkCudaErrors", g)
      c  == checkCuda(g.status, p2)
  IN  [ret |-> IF c.ps.aborted THEN NoReturn ELSE g.status, ps |-> c.ps]

checkCudaErrors(ps) ==
  IF debug
  THEN LET s  == cudaDeviceSynchronize(ps.rt)
           p1 == Called(ps, "cudaDeviceSynchronize", "checkCudaErrors", s)
           p2 == IF s.status # cudaSuccess
                 THEN [p1 EXCEPT !.out = Append(@, <<"CUDA Launch Error", cudaGetErrorString(s.status)>>)]
                 ELSE p1
           g  == cudaGetLastError(p2.rt)
           p3 == Called(p2, "cudaGetLastError", "checkCudaErrors", g)
           c  == checkCuda(g.status, p3)
       IN  [ret |-> IF c.ps.aborted THEN NoReturn ELSE g.status, ps |-> c.ps]
  ELSE [ret |-> cudaSuccess, ps |-> ps]

-----------------------------------------------------------------------------
(* Kernel launch.                                                          *)

\* the launch under nvcc with the debug check left out
CudaKernelLaunch_NoCheck(cfg, args, fate, ps) ==
  [ps EXCEPT !.rt = cudaLaunch(ps.rt, cfg, fate),
             !.launched = Append(@, [cfg |-> cfg, args |-> args])]

\* HEMI_KERNEL_LAUNCH under nvcc
CudaKernelLaunch(cfg, args, fate, ps) ==
  LET p1 == [ps EXCEPT !.rt = cudaLaunch(ps.rt, cfg, fate),
                       !.launched = Append(@, [cfg |-> cfg, args |-> args])]
  IN  IF debug THEN checkCudaErrors(p1).ps ELSE p1

\* the host launch also running the debug check of the nvcc branch
HostKernelLaunch_Checks(cfg, args, fate, ps) ==
  LET p1 == [ps EXCEPT !.body = Append(@, args)]
  IN  IF debug THEN checkCudaErrors(p1).ps ELSE p1

\* HEMI_KERNEL_LAUNCH under a host compiler: name(args)
HostKernelLaunch(cfg, args, fate, ps) ==
  [ps EXCEPT !.body = Append(@, args)]

HEMI_KERNEL_LAUNCH(cfg, args, fate, ps) ==
  IF compiler = "nvcc" THEN CudaKernelLaunch(cfg, args, fate, ps)
  ELSE HostKernelLaunch(cfg, args, fate, ps)

Cfgs == [grid : {0, 1, 2}, block : 1 .. MaxBlockDim,
         shared : {0, 16}, stream : {0, 1}]
Args == {"a", "b"}
Fates == {"ok", "fault"}

NoCfg == [grid |-> 0, block |-> 0, shared |-> 0, stream |-> 0]

Idle ==
  [op |-> "none", arg |-> NoValue, ret |-> NoValue, cfg |-> NoCfg,
   args |-> NoValue, fate |-> NoValue, rtIn |-> RtInit, ps |-> Enter(RtInit)]

\* the record of an operation: what it was given and the process state it left
Done(op, arg, ret, cfg, args, fate, rtIn, ps) ==
  [op |-> op, arg |-> arg, ret |-> ret, cfg |-> cfg, args |-> args,
   fate |-> fate, rtIn |-> rtIn, ps |-> ps]


-----------------------------------------------------------------------------
(* Constant definition and access.                                         *)

Names == {"x", "y"}
Values == {"v1", "v2", "v3"}
Undefined == "undefined"

StoreInit ==
  [hostconst |-> [n \in Names |-> Undefined],
   devconst |-> [n \in Names |-> Undefined]]

\* HEMI_DEFINE_CONSTANT(def, value): nvcc emits name_devconst and
\* name_hostconst, a host compiler name_hostconst alone
HEMI_DEFINE_CONSTANT(st, name, value) ==
  IF compiler = "nvcc"
  THEN [st EXCEPT !.devconst[name] = value, !.hostconst[name] = value]
  ELSE [st EXCEPT !.hostconst[name] = value]

\* HEMI_CONSTANT without the HEMI_DEV_CODE test: HEMI_DEV_CONSTANT's expansion
HEMI_CONSTANT_AlwaysDev(name) ==
  IF compiler = "nvcc" THEN <<"devconst", name>> ELSE <<"hostconst", name>>

\* HEMI_CONSTANT(name): the symbol it expands to in the current pass
HEMI_CONSTANT(name) ==
  IF compiler = "nvcc"
  THEN IF HEMI_DEV_CODE THEN <<"devconst", name>> ELSE <<"hostconst", name>>
  ELSE <<"hostconst", name>>

NoRead == [name |-> NoValue, sym |-> <<>>, val |-> Undefined]


-----------------------------------------------------------------------------
(* Work-partitioning helpers.                                              *)

hemiGetElementOffset(blockIdxX, threadIdxX) ==
  IF HEMI_DEV_CODE
  THEN ToInt(AddU32(MulU32(blockIdxX, U32(blockDimX)), U32(threadIdxX)))
  ELSE 0

\* hemiGetElementStride returning the offset's 0 outside device code
hemiGetElementStride_HostZero ==
  IF HEMI_DEV_CODE
  THEN ToInt(MulU32(blockDimX, U32(gridDimX)))
  ELSE 0

hemiGetElementStride ==
  IF HEMI_DEV_CODE
  THEN ToInt(MulU32(blockDimX, U32(gridDimX)))
  ELSE 1

-----------------------------------------------------------------------------
(* The loop idiom                                                          *)
(*   int offset = hemiGetElementOffset();                                  *)
(*   int stride = hemiGetElementStride();                                  *)
(*   for (int idx = offset; idx < N; idx += stride) processElement(idx);   *)
(* run by every followed thread.                                           *)

AllThreads(gd, bd) == (0 .. gd - 1) \X (0 .. bd - 1)

\* launches small enough to follow every thread
SmallLaunches ==
  { [bd |-> b, gd |-> g, n |-> n, followed |-> AllThreads(g, b)] :
      b \in 1 .. MaxBlockDim, g \in {1, 2}, n \in 0 .. MaxN }

\* launches of 2^30 and 2^31 threads in blocks of 1024 over INT_MAX elements
\* (2^31 threads is one thread per element), of which the first and the last
\* thread are followed
LargeLaunches ==
  { [bd |-> 2^10, gd |-> g, n |-> INT_MAX,
     followed |-> {<<0, 0>>, <<g - 1, 2^10 - 1>>}] :
      g \in {2^20, 2^21} }

\* the sequential host loop: one thread of control, no grid
HostRuns ==
  { [bd |-> 1, gd |-> 1, n |-> n, followed |-> {<<0, 0>>}] :
      n \in (0 .. MaxN) \cup {INT_MAX} }

ThreadStart ==
  [pc |-> "start", offset |-> 0, stride |-> 0, idx |-> 0,
   visited |-> <<>>, ub |-> FALSE]

InitLoop ==
  /\ debug \in BOOLEAN
  /\ \E m \in Modes : compiler = m[1] /\ pass = m[2]
  /\ \E l \in (IF HEMI_DEV_CODE THEN SmallLaunches \cup LargeLaunches
               ELSE HostRuns) :
       /\ N = l.n
       /\ blockDimX = l.bd
       /\ gridDimX = l.gd
       /\ threads = l.followed
  /\ thr = [t \in threads |-> ThreadStart]
  /\ rt = RtInit /\ alive = TRUE /\ nops = 0 /\ last = Idle
  /\ store = StoreInit /\ defs = [n \in Names |-> Undefined] /\ lastRead = NoRead

\* lines 152-155: the two helper calls and the loop's initialisation
LoopEnter(t) ==
  /\ thr[t].pc = "start"
  /\ LET off == hemiGetElementOffset(t[1], t[2])
     IN  thr' = [thr EXCEPT ![t] = [@ EXCEPT !.pc = "loop",
                                             !.offset = off,
                                             !.stride = hemiGetElementStride,
                                             !.idx = off]]
  /\ UNCHANGED <<buildVars, pass, N, blockDimX, gridDimX, threads, rtVars, constVars>>

\* lines 155-156: idx < N holds, the body runs, and idx += stride stays in int
LoopIter(t) ==
  /\ thr[t].pc = "loop"
  /\ thr[t].idx < N
  /\ Len(thr[t].visited) < MaxVisits
  /\ ~AddOverflows(thr[t].idx, thr[t].stride)
  /\ thr' = [thr EXCEPT ![t] = [@ EXCEPT !.visited = Append(@, thr[t].idx),
                                         !.idx = @ + thr[t].stride]]
  /\ UNCHANGED <<buildVars, pass, N, blockDimX, gridDimX, threads, rtVars, constVars>>

\* lines 155-156: the body runs and idx += stride overflows int, which is
\* undefined: the build either wraps the sum, or keeps idx in a wider register
\* and leaves the loop at the next test
LoopIterOverflow(t) ==
  /\ thr[t].pc = "loop"
  /\ thr[t].idx < N
  /\ Len(thr[t].visited) < MaxVisits
  /\ AddOverflows(thr[t].idx, thr[t].stride)
  /\ \E wraps \in BOOLEAN :
       thr' = [thr EXCEPT ![t] =
                 [@ EXCEPT !.visited = Append(@, thr[t].idx),
                           !.ub = TRUE,
                           !.idx = IF wraps THEN WrapAdd(@, thr[t].stride) ELSE @,
                           !.pc = IF wraps THEN "loop" ELSE "done"]]
  /\ UNCHANGED <<buildVars, pass, N, blockDimX, gridDimX, threads, rtVars, constVars>>

\* line 155: idx < N fails
LoopExit(t) ==
  /\ thr[t].pc = "loop"
  /\ ~(thr[t].idx < N)
  /\ thr' = [thr EXCEPT ![t] = [@ EXCEPT !.pc = "done"]]
  /\ UNCHANGED <<buildVars, pass, N, blockDimX, gridDimX, threads, rtVars, constVars>>

NextLoop ==
  \/ \E t \in threads : LoopEnter(t)
  \/ \E t \in threads : LoopIter(t)
  \/ \E t \in threads : LoopIterOverflow(t)
  \/ \E t \in threads : LoopExit(t)

SpecLoop == InitLoop /\ [][NextLoop]_vars


-----------------------------------------------------------------------------
(* The parts of the state a specification does not use stay as they start. *)

LoopIdle ==
  /\ N = 0 /\ blockDimX = 1 /\ gridDimX = 1
  /\ threads = {} /\ thr = [t \in {} |-> ThreadStart]
RtIdle == rt = RtInit /\ alive = TRUE /\ nops = 0 /\ last = Idle
ConstIdle == store = StoreInit /\ defs = [n \in Names |-> Undefined] /\ lastRead = NoRead

-----------------------------------------------------------------------------
(* Spec: the host thread issues checkCuda, checkCudaErrors and             *)
(* HEMI_KERNEL_LAUNCH while the device works through the launched kernels. *)

Init ==
  /\ compiler \in {"nvcc", "host"}
  /\ debug \in BOOLEAN
  /\ pass = "host"
  /\ LoopIdle /\ RtIdle /\ ConstIdle

Finish(rec) ==
  /\ last' = rec
  /\ rt' = rec.ps.rt
  /\ alive' = ~rec.ps.aborted
  /\ nops' = nops + 1
  /\ UNCHANGED <<buildVars, loopVars, constVars>>

\* checkCuda(call(...)): a runtime call of the caller's, wrapped
CheckCudaCall ==
  /\ alive /\ nops < MaxOps
  /\ \E own \in Status \ LaunchErrors :
       LET w == cudaApiCall(rt, own)
           c == checkCuda(w.status, Enter(w.rt))
       IN  Finish(Done("checkCuda", w.status, c.ret, NoCfg, NoValue, NoValue, w.rt, c.ps))

\* checkCudaErrors()
CheckCudaErrorsCall ==
  /\ alive /\ nops < MaxOps
  /\ LET c == checkCudaErrors(Enter(rt))
     IN  Finish(Done("checkCudaErrors", NoValue, c.ret, NoCfg, NoValue, NoValue, rt, c.ps))

\* HEMI_KERNEL_LAUNCH(name, gridDim, blockDim, sharedBytes, streamId, args)
KernelLaunch ==
  /\ alive /\ nops < MaxOps
  /\ \E cfg \in Cfgs, args \in Args, fate \in Fates :
       LET ps == HEMI_KERNEL_LAUNCH(cfg, args, fate, Enter(rt))
       IN  Finish(Done("launch", NoValue, NoValue, cfg, args, fate, rt, ps))

\* HEMI_KERNEL_NAME(name)<<<grid, 1>>>(args): the caller launches the kernel
\* itself, without the macro
RawLaunch ==
  /\ alive /\ nops < MaxOps
  /\ compiler = "nvcc"
  /\ \E grid \in {0, 1}, args \in Args, fate \in Fates :
       LET cfg == [grid |-> grid, block |-> 1, shared |-> 0, stream |-> 0]
           ps  == [Enter(cudaLaunch(rt, cfg, fate)) EXCEPT
                     !.launched = <<[cfg |-> cfg, args |-> args]>>]
       IN  Finish(Done("raw", NoValue, NoValue, cfg, args, fate, rt, ps))

\* the device completes a kernel while the host thread runs on
DeviceCompletes ==
  /\ alive
  /\ rt.inflight # <<>>
  /\ rt' = DeviceStep(rt)
  /\ UNCHANGED <<alive, nops, last, buildVars, loopVars, constVars>>

Next ==
  \/ CheckCudaCall
  \/ CheckCudaErrorsCall
  \/ KernelLaunch
  \/ RawLaunch
  \/ DeviceCompletes

Spec == Init /\ [][Next]_vars

-----------------------------------------------------------------------------
(* SpecConst: constants are defined, then read from code of one pass.      *)

InitConst ==
  /\ debug \in BOOLEAN
  /\ \E m \in Modes : compiler = m[1] /\ pass = m[2]
  /\ LoopIdle /\ RtIdle /\ ConstIdle

DefineConstant ==
  \E name \in Names, value \in Values :
    /\ defs[name] = Undefined
    /\ store' = HEMI_DEFINE_CONSTANT(store, name, value)
    /\ defs' = [defs EXCEPT ![name] = value]
    /\ UNCHANGED <<lastRead, buildVars, loopVars, rtVars>>

ReadConstant ==
  \E name \in Names :
    /\ defs[name] # Undefined
    /\ LET sym == HEMI_CONSTANT(name)
       IN  lastRead' = [name |-> name, sym |-> sym, val |-> store[sym[1]][sym[2]]]
    /\ UNCHANGED <<store, defs, buildVars, loopVars, rtVars>>

NextConst == DefineConstant \/ ReadConstant

SpecConst == InitConst /\ [][NextConst]_vars


-----------------------------------------------------------------------------
(* Properties of the loop idiom.                                           *)

\* every iteration of every followed thread: <<thread, position>>
Visits == UNION { {<<t, i>> : i \in 1 .. Len(thr[t].visited)} : t \in threads }

VisitedIdx(v) == thr[v[1]].visited[v[2]]

\* blockIdx.x * blockDim.x + threadIdx.x and blockDim.x * gridDim.x are
\* representable in int
OffsetFits(t) == t[1] <= (INT_MAX - t[2]) \div blockDimX
StrideFits == gridDimX <= INT_MAX \div blockDimX

\* every thread of the launch is followed
AllFollowed ==
  /\ StrideFits
  /\ Cardinality(threads) = gridDimX * blockDimX

AllDone == \A t \in threads : thr[t].pc = "done"

\* C1: on the device path every index in [0, N) is visited by exactly one
\* thread exactly once, no index outside [0, N) is visited, and a thread
\* whose offset is >= N performs no iteration, whatever T and N are.
GridStridePartition ==
  HEMI_DEV_CODE =>
    /\ \A v \in Visits : 0 <= VisitedIdx(v) /\ VisitedIdx(v) < N
    /\ \A v, w \in Visits : v # w => VisitedIdx(v) # VisitedIdx(w)
    /\ \A t \in threads :
         (thr[t].pc # "start" /\ thr[t].offset >= N) => thr[t].visited = <<>>
    /\ (AllFollowed /\ AllDone) => Cardinality(Visits) = N

\* The partition C1 describes does hold for the launches whose arithmetic
\* stays in int: T = blockDim.x * gridDim.x and N + T - 1 are at most INT_MAX.
GridStridePartitionInRange ==
  (HEMI_DEV_CODE /\ StrideFits /\ N <= INT_MAX - (gridDimX * blockDimX - 1)) =>
    /\ \A v \in Visits : 0 <= VisitedIdx(v) /\ VisitedIdx(v) < N
    /\ \A v, w \in Visits : v # w => VisitedIdx(v) # VisitedIdx(w)
    /\ \A t \in threads :
         (thr[t].pc # "start" /\ thr[t].offset >= N) => thr[t].visited = <<>>
    /\ \A t \in threads : ~thr[t].ub
    /\ (AllFollowed /\ AllDone) => Cardinality(Visits) = N

\* C2: on the host path the helpers return 0 and 1, and the loop produces
\* 0, 1, ..., N-1 in ascending order, each index once, nothing for N = 0.
HostLoopSequential ==
  ~HEMI_DEV_CODE =>
    \A t \in threads :
      thr[t].pc # "start" =>
        /\ thr[t].offset = 0
        /\ thr[t].stride = 1
        /\ ~thr[t].ub
        /\ Len(thr[t].visited) <= N
        /\ \A i \in 1 .. Len(thr[t].visited) : thr[t].visited[i] = i - 1
        /\ thr[t].pc = "done" => Len(thr[t].visited) = N

\* a host loop over at least three elements has run to its end
HostLoopFinished ==
  /\ ~HEMI_DEV_CODE
  /\ N >= 3
  /\ \E t \in threads : thr[t].pc = "done" /\ Len(thr[t].visited) = N

\* C10: with int offset, stride and idx, for every N in [0, 2^31 - 1] and
\* every launch no index computation overflows, stride is at least 1, and a
\* thread runs at most ceil((N - offset) / stride) iterations.
LoopStaysInInt ==
  \A t \in threads :
    thr[t].pc # "start" =>
      /\ HEMI_DEV_CODE => (OffsetFits(t) /\ StrideFits)
      /\ thr[t].stride >= 1
      /\ ~thr[t].ub
      /\ Len(thr[t].visited) <=
           (IF thr[t].offset < N
            THEN (N - thr[t].offset - 1) \div thr[t].stride + 1
            ELSE 0)

-----------------------------------------------------------------------------
(* Properties of the error-check helpers and the launch macro.             *)

Calls == last.ps.calls
Printed(tag) == \E i \in 1 .. Len(last.ps.out) : last.ps.out[i][1] = tag

\* C3: checkCuda with a failure status prints the failure string and aborts
\* in a debug build, and returns the status silently in a non-debug build.
CheckCudaOnFailure ==
  (last.op = "checkCuda" /\ last.arg # cudaSuccess) =>
    IF debug
    THEN /\ last.ps.aborted /\ ~alive
         /\ last.ret = NoReturn
         /\ last.ps.out = << <<"CUDA Runtime Error", cudaGetErrorString(last.arg)>> >>
    ELSE /\ ~last.ps.aborted /\ alive
         /\ last.ret = last.arg
         /\ last.ps.out = <<>>

\* a debug build has aborted in checkCuda on a failure status
CheckCudaAborted ==
  /\ debug
  /\ last.op = "checkCuda"
  /\ last.arg # cudaSuccess
  /\ ~alive

\* C4: checkCuda with the success status returns it with no output, no
\* termination and the runtime's error state untouched, in every build; and
\* whenever checkCuda returns, it returns its argument.
CheckCudaPassThrough ==
  last.op = "checkCuda" =>
    /\ last.arg = cudaSuccess =>
         /\ last.ret = cudaSuccess
         /\ last.ps.out = <<>>
         /\ ~last.ps.aborted
         /\ Calls = <<>>
         /\ last.ps.rt = last.rtIn
    /\ ~last.ps.aborted => last.ret = last.arg

\* checkCuda has passed a success status through while an earlier error was
\* still recorded in the runtime
CheckCudaPassedSuccess ==
  /\ last.op = "checkCuda"
  /\ last.arg = cudaSuccess
  /\ last.ret = cudaSuccess
  /\ last.rtIn.lastError # cudaSuccess

\* the last operation ran checkCudaErrors, called directly or by the launch
ErrorCheckRan ==
  \/ last.op = "checkCudaErrors"
  \/ last.op = "launch" /\ compiler = "nvcc" /\ debug

\* C5: in a debug build checkCudaErrors synchronizes the device, then queries
\* the last error, and a failure status from either aborts the process after
\* the diagnostic: it returns only when neither failed.
AsyncErrorsAbort ==
  (debug /\ ErrorCheckRan) =>
    /\ Len(Calls) = 2
    /\ Calls[1].fn = "cudaDeviceSynchronize"
    /\ Calls[2].fn = "cudaGetLastError"
    /\ (Calls[1].status # cudaSuccess \/ Calls[2].status # cudaSuccess) =>
         /\ last.ps.aborted /\ ~alive
         /\ Printed("CUDA Runtime Error")
    /\ ~last.ps.aborted =>
         /\ Calls[1].status = cudaSuccess
         /\ Calls[2].status = cudaSuccess
         /\ last.op = "checkCudaErrors" => last.ret = cudaSuccess

\* a direct checkCudaErrors call found a failed kernel at the
\* synchronization and aborted
AsyncFailureAborted ==
  /\ debug
  /\ last.op = "checkCudaErrors"
  /\ Calls[1].status # cudaSuccess
  /\ ~alive

\* the launch was accepted by the runtime
Accepted == last.cfg.grid # 0 /\ last.cfg.block # 0 /\ last.rtIn.sticky = cudaSuccess

\* C6: the host thread synchronizes with the device only inside
\* checkCudaErrors and only in a debug build; in a non-debug build no
\* operation calls the runtime's error or synchronization functions, the
\* launch returns with its kernel still in flight, and checkCudaErrors returns
\* cudaSuccess leaving the runtime's error state as it was.
OnlyDebugCheckSynchronizes ==
  /\ \A i \in 1 .. Len(Calls) :
       Calls[i].fn = "cudaDeviceSynchronize" =>
         debug /\ Calls[i].by = "checkCudaErrors" /\ ErrorCheckRan
  /\ ~debug =>
       /\ Calls = <<>>
       /\ last.op = "checkCudaErrors" =>
            /\ last.ret = cudaSuccess
            /\ last.ps.rt = last.rtIn
            /\ last.ps.out = <<>>
            /\ ~last.ps.aborted
       /\ (last.op = "launch" /\ compiler = "nvcc" /\ Accepted) =>
            last.ps.rt.inflight = Append(last.rtIn.inflight, last.fate)

\* a non-debug checkCudaErrors has returned with an error recorded and a
\* kernel in flight, both left as they were
ReleaseCheckSkipped ==
  /\ ~debug
  /\ last.op = "checkCudaErrors"
  /\ last.rtIn.lastError # cudaSuccess
  /\ last.rtIn.inflight # <<>>
  /\ last.ps.rt = last.rtIn

\* C7: under nvcc the launch is issued with the given parameters; in a debug
\* build checkCudaErrors follows it within the macro, so a failed launch
\* aborts there and a launch that returns leaves no failure behind for a
\* later call; in a non-debug build no check follows.
LaunchCheckedAtCallSite ==
  (last.op = "launch" /\ compiler = "nvcc") =>
    /\ last.ps.launched = <<[cfg |-> last.cfg, args |-> last.args]>>
    /\ last.ps.body = <<>>
    /\ debug =>
         /\ Len(Calls) = 2
         /\ Calls[1].fn = "cudaDeviceSynchronize"
         /\ Calls[2].fn = "cudaGetLastError"
         /\ (~Accepted \/ last.fate = "fault") => (last.ps.aborted /\ ~alive)
         /\ ~last.ps.aborted =>
              /\ last.ps.rt.lastError = cudaSuccess
              /\ last.ps.rt.sticky = cudaSuccess
              /\ last.ps.rt.inflight = <<>>
    /\ ~debug =>
         /\ Calls = <<>>
         /\ last.ps.out = <<>>
         /\ ~last.ps.aborted

\* a debug launch of a faulting kernel, issued on a clean runtime, has
\* aborted at the launch
LaunchFaultAborted ==
  /\ debug /\ compiler = "nvcc"
  /\ last.op = "launch"
  /\ last.rtIn = RtInit
  /\ last.cfg.grid # 0
  /\ last.fate = "fault"
  /\ ~alive

\* C8: under a host compiler the launch is one synchronous call of the
\* kernel function with the same arguments, whatever the grid, block,
\* shared-memory and stream parameters are, with no error check.
HostLaunchIsPlainCall ==
  (last.op = "launch" /\ compiler = "host") =>
    /\ last.ps.body = <<last.args>>
    /\ last.ps.launched = <<>>
    /\ Calls = <<>>
    /\ last.ps.out = <<>>
    /\ ~last.ps.aborted
    /\ last.ps.rt = last.rtIn

\* a debug host build has run the kernel body for a launch whose grid
\* parameter nvcc's runtime would reject
HostLaunchRan ==
  /\ compiler = "host" /\ debug
  /\ last.op = "launch"
  /\ last.cfg.grid = 0
  /\ last.ps.body = <<last.args>>

-----------------------------------------------------------------------------
(* Properties of the constants.                                            *)

\* C9: a constant defined with initializer V reads back as V through
\* HEMI_CONSTANT in every mode: from name_devconst in the device pass, from
\* name_hostconst otherwise, and under nvcc both copies hold V.
ConstantRoundTrip ==
  /\ \A n \in Names :
       defs[n] # Undefined =>
         /\ store.hostconst[n] = defs[n]
         /\ store.devconst[n] = (IF compiler = "nvcc" THEN defs[n] ELSE Undefined)
  /\ lastRead # NoRead =>
       /\ lastRead.val = defs[lastRead.name]
       /\ lastRead.sym =
            <<IF HEMI_DEV_CODE THEN "devconst" ELSE "hostconst", lastRead.name>>

\* device code has read a defined constant from its device copy
DeviceReadConstant ==
  /\ HEMI_DEV_CODE
  /\ lastRead # NoRead
  /\ lastRead.sym[1] = "devconst"
  /\ lastRead.val \in Values

====
